---- MODULE Spec2Model ----
(***************************************************************************)
(* Ledger advancement of XRPL-Commons/Bedrock.                             *)
(*                                                                         *)
(* Part I models the in-process LedgerService of pkg/network/ledger.go:    *)
(* the fields guarded by the RWMutex mu, the callers' operations Start,    *)
(* Stop and GetStatus, and one loop goroutine per successful Start         *)
(* (run / advanceLedger).  Goroutine g is the loop spawned by the g-th     *)
(* successful Start; its context is cancelled by Stop (through s.cancel)   *)
(* or by the cancellation of the context handed to Start.                  *)
(*                                                                         *)
(* Part II models the detached daemon process of internal/cli/slate.go      *)
(* (runLedgerDaemon / advanceLedger) and the termination signals the       *)
(* operating system delivers to it.                                        *)
(*                                                                         *)
(* Part III models the process supervisor of internal/cli/node.go          *)
(* (startLedgerDaemon, stopLedgerDaemon, isLedgerDaemonRunning): it spawns *)
(* the daemon process of Part II, records its process ID in the PID file,  *)
(* signals it and probes it.                                               *)
(*                                                                         *)
(* Part IV models the node manager of pkg/network/manager.go: Start up to  *)
(* its call of LedgerService.Start, with WaitForReady of ledger.go in      *)
(* between, and Stop.  WaitForReady is timed: elapsed counts tenths of a   *)
(* second since it was called.                                             *)
(*                                                                         *)
(* Part V models the wallet manager of pkg/wallet (keystore files under    *)
(* wm.walletsDir) and Part VI the build command's loading of bedrock.toml. *)
(*                                                                         *)
(* host says which program a behaviour describes, and never changes: a     *)
(* caller of the LedgerService API, the command that owns a Manager, the   *)
(* commands around the detached daemon, a caller of the wallet manager,    *)
(* the build command.                                                      *)
(*                                                                         *)
(* The loops are untimed: the ticker's period elapsing is the action       *)
(* TickerFire, the node answering a request is the choice of an outcome    *)
(* in the Advance* actions.  One daemon process is followed; process IDs   *)
(* of other users' processes and exited processes not yet reaped are left  *)
(* out.                                                                    *)
(***************************************************************************)
EXTENDS Integers, FiniteSets, Sequences, TLC

\* ---------------------------------------------------------------- bounds
\* Successful Start calls on one LedgerService (one loop goroutine each).
MaxRuns == 2
\* Requests the loop goroutines of the service may issue, all runs together
\* (and the requests the daemon's loop may issue).
MaxAttempts == 3
\* The node reports a ledger index in 1..MaxIndex, in any order.
MaxIndex == 2

\* Longest time a readiness request takes to return, in tenths of a second.
MaxRequestTime == 4

G == 1..MaxRuns
Indices == 1..MaxIndex
\* err.Error() of client.Request and of resp.GetResult
Errors == {"transport", "decode"}
\* runLedgerDaemon's readiness loop: for i := 0; i < 60; i++
ReadyAttempts == 60
\* DefaultNodeReadyTimeout (30s) and WaitForReady's sleep between two
\* requests (500ms), in tenths of a second.
DefaultNodeReadyTimeout == 300
PollInterval == 5
\* The --interval flag's default, in milliseconds.
DefaultInterval == 1000
\* The ledger_interval key of bedrock.toml's [local_node] table: not there, or
\* there with its value in milliseconds (the project template writes 1000).
ConfigKeys == {<<>>, <<DefaultInterval>>}

\* config.Load: toml.Unmarshal into a zero Config, then defaults for ConfigDir
\* and DockerImage only; LedgerInterval is the key's value, or the zero value.
LoadLedgerInterval(key) == IF key = <<>> THEN 0 ELSE key[1]

\* The process ID the operating system gives the spawned daemon
\* (cmd.Process.Pid), and the one of an earlier daemon that is gone while its
\* PID file was left behind.
DaemonPid == 12
StalePid == 7

\* What reading the PID file gives when there is none, and when the file is
\* there and cannot be read; otherwise reading gives the content.
NoFile == <<"ENOENT">>
Unreadable == <<"EIO">>

\* A string is the sequence of its characters.
DigitChars == <<"0", "1", "2", "3", "4", "5", "6", "7", "8", "9">>

IsDigit(c) == \E d \in 0..9 : DigitChars[d + 1] = c

DigitVal(c) == CHOOSE d \in 0..9 : DigitChars[d + 1] = c

\* strconv.Itoa: decimal digits, a minus sign before them for a negative n.
RECURSIVE Itoa(_)
Itoa(n) ==
    IF n < 0 THEN <<"-">> \o Itoa(0 - n)
    ELSE IF n < 10 THEN <<DigitChars[n + 1]>>
    ELSE Itoa(n \div 10) \o <<DigitChars[(n % 10) + 1]>>

RECURSIVE DigitsValue(_)
DigitsValue(s) ==
    IF s = <<>> THEN 0
    ELSE 10 * DigitsValue(SubSeq(s, 1, Len(s) - 1)) + DigitVal(s[Len(s)])

\* strconv.Atoi: an optional sign, then one digit or more and nothing else;
\* no space or line end is skipped.
Atoi(s) ==
    LET signed == s # <<>> /\ s[1] \in {"+", "-"}
        body == IF signed THEN Tail(s) ELSE s
        valid == body # <<>> /\ \A k \in 1..Len(body) : IsDigit(body[k])
    IN  IF valid
           THEN [err |-> FALSE,
                 n |-> IF s[1] = "-" THEN 0 - DigitsValue(body) ELSE DigitsValue(body)]
           ELSE [err |-> TRUE, n |-> 0]

\* What the PID file may hold when the supervisor is first called: nothing,
\* the ID of a daemon that died without a Stop, or a number followed by a
\* line end as an editor leaves it.
InitialPidFiles == {NoFile, Itoa(StalePid), Itoa(StalePid) \o <<"\n">>}

\* Errors of startLedgerDaemon's steps up to and including cmd.Start.
SpawnErrors == {"executable", "mkdir", "logfile", "spawn"}

\* --------------------------------------------- wallet keystore (pkg/wallet)
\* ValidateWalletName: at most 15 characters, each matching [a-zA-Z0-9_-].
MaxNameLen == 15

NameChars ==
    {"a", "b", "c", "d", "e", "f", "g", "h", "i", "j", "k", "l", "m", "n", "o", "p",
     "q", "r", "s", "t", "u", "v", "w", "x", "y", "z", "A", "B", "C", "D", "E", "F",
     "G", "H", "I", "J", "K", "L", "M", "N", "O", "P", "Q", "R", "S", "T", "U", "V",
     "W", "X", "Y", "Z", "0", "1", "2", "3", "4", "5", "6", "7", "8", "9", "_", "-"}

ValidateWalletName(name) ==
    IF Len(name) = 0 THEN "empty"
    ELSE IF Len(name) > MaxNameLen THEN "long"
    ELSE IF \E k \in 1..Len(name) : name[k] \notin NameChars THEN "chars"
    ELSE "nil"

\* Names handed to the wallet manager: two valid ones, the empty name, one of
\* 16 characters and one with a path separator.
WalletNames ==
    {<<"a">>, <<"b", "-", "1">>, <<>>, [k \in 1..(MaxNameLen + 1) |-> "a"],
     <<".", ".", "/", "a">>}

\* Names that can have a keystore file: the ones SaveWallet accepts.
StorableNames == {n \in WalletNames : ValidateWalletName(n) = "nil"}

\* Addresses, seeds (as bytes) and passwords (as bytes) of the wallets handed
\* to SaveWallet; one address has characters JSON escapes.
Addresses == {<<"r", "H", "b">>, <<"r", "\"", "\\", "<">>}

Seeds == {<<115, 69, 100>>, <<>>}

Passwords == {<<112, 119>>, <<112, 120>>}

\* rand.Read: the salt and the nonce SaveWallet draws.
Salts == {<<7, 200>>}

Nonces == {<<33>>}

RECURSIVE SumSeq(_)
SumSeq(s) == IF s = <<>> THEN 0 ELSE Head(s) + SumSeq(Tail(s))

\* pbkdf2.Key(password, salt, ...): the key, here one byte that differs for
\* passwords that differ.
Key(password, salt) == (31 * SumSeq(password) + SumSeq(salt)) % 256

\* The authentication tag of a ciphertext under a key and a nonce.
Tag(ciphertext, key, nonce) == (key + 3 * SumSeq(nonce) + SumSeq(ciphertext) + 1) % 256

\* encrypt: gcm.Seal(nil, nonce, plaintext, nil), the plaintext under the
\* key stream followed by the tag.
encrypt(plaintext, key, nonce) ==
    LET body == [k \in 1..Len(plaintext) |->
                    (plaintext[k] + key + SumSeq(nonce) + k) % 256]
    IN  body \o <<Tag(body, key, nonce)>>

\* decrypt: gcm.Open(nil, nonce, ciphertext, nil), an error unless the tag is
\* the one of this key, nonce and ciphertext.
decrypt(ciphertext, key, nonce) ==
    IF ciphertext = <<>> THEN [err |-> TRUE, out |-> <<>>]
    ELSE LET body == SubSeq(ciphertext, 1, Len(ciphertext) - 1)
         IN  IF ciphertext[Len(ciphertext)] # Tag(body, key, nonce)
                THEN [err |-> TRUE, out |-> <<>>]
                ELSE [err |-> FALSE,
                      out |-> [k \in 1..Len(body) |->
                                  (body[k] + 512 - key - SumSeq(nonce) - k) % 256]]

HexChars == <<"0", "1", "2", "3", "4", "5", "6", "7", "8", "9", "a", "b", "c", "d",
              "e", "f">>

IsHex(c) == \E d \in 0..15 : HexChars[d + 1] = c

HexVal(c) == CHOOSE d \in 0..15 : HexChars[d + 1] = c

\* hex.EncodeToString: two characters a byte, the high half first.
RECURSIVE EncodeToString(_)
EncodeToString(bytes) ==
    IF bytes = <<>> THEN <<>>
    ELSE <<HexChars[(Head(bytes) \div 16) + 1], HexChars[(Head(bytes) % 16) + 1]>>
            \o EncodeToString(Tail(bytes))

\* hex.DecodeString: an error for an odd length or a character that is no
\* hexadecimal digit.
RECURSIVE HexBytes(_)
HexBytes(s) ==
    IF s = <<>> THEN <<>>
    ELSE <<16 * HexVal(s[1]) + HexVal(s[2])>> \o HexBytes(SubSeq(s, 3, Len(s)))

DecodeString(s) ==
    IF Len(s) % 2 = 0 /\ \A k \in 1..Len(s) : IsHex(s[k])
       THEN [err |-> FALSE, out |-> HexBytes(s)]
       ELSE [err |-> TRUE, out |-> <<>>]

\* json.Marshal of a string: quotes around it, a backslash before a quote and
\* before a backslash, < for the less-than sign.
RECURSIVE Escape(_)
Escape(s) ==
    IF s = <<>> THEN <<>>
    ELSE (CASE Head(s) = "\"" -> <<"\\", "\"">>
            [] Head(s) = "\\" -> <<"\\", "\\">>
            [] Head(s) = "<" -> <<"\\", "u", "0", "0", "3", "c">>
            [] OTHER -> <<Head(s)>>) \o Escape(Tail(s))

Marshal(s) == <<"\"">> \o Escape(s) \o <<"\"">>

\* json.Unmarshal into a string: the text between the quotes, escapes undone.
RECURSIVE Unescape(_)
Unescape(t) ==
    IF t = <<>> THEN <<>>
    ELSE IF Head(t) # "\\" THEN <<Head(t)>> \o Unescape(Tail(t))
    ELSE IF Len(t) >= 6 /\ t[2] = "u"
         THEN <<IF SubSeq(t, 3, 6) = <<"0", "0", "3", "c">> THEN "<" ELSE "?">>
                 \o Unescape(SubSeq(t, 7, Len(t)))
    ELSE IF Len(t) >= 2 THEN <<t[2]>> \o Unescape(SubSeq(t, 3, Len(t)))
    ELSE <<>>

Unmarshal(t) ==
    IF Len(t) >= 2 /\ t[1] = "\"" /\ t[Len(t)] = "\""
       THEN [err |-> FALSE, out |-> Unescape(SubSeq(t, 2, Len(t) - 1))]
       ELSE [err |-> TRUE, out |-> <<>>]

\* A keystore file that is not there, and one that is there and holds no
\* JSON (a write that failed after the file was opened); otherwise a file is
\* the JSON object, one text a field.
NoKeystore == [kind |-> "ENOENT"]

Corrupt == [kind |-> "empty"]

\* saveKeystore after SaveWallet built the Keystore: json.MarshalIndent.
KeystoreFile(wallet, password, salt, nonce) ==
    [name |-> Marshal(wallet.name),
     address |-> Marshal(wallet.address),
     encrypted_seed |->
         Marshal(EncodeToString(encrypt(wallet.seed, Key(password, salt), nonce))),
     salt |-> Marshal(EncodeToString(salt)),
     nonce |-> Marshal(EncodeToString(nonce))]

\* What the wallets directory holds under name.json.
FileOf(dir, name) == IF name \in DOMAIN dir THEN dir[name] ELSE NoKeystore

\* WalletExists: os.Stat of name.json gives no error.
Exists(dir, name) == FileOf(dir, name) # NoKeystore

\* loadKeystore: os.ReadFile, json.Unmarshal; the Keystore's string fields.
loadKeystore(dir, name) ==
    LET file == FileOf(dir, name) IN
    IF file = NoKeystore THEN [err |-> "read"]
    ELSE IF file = Corrupt THEN [err |-> "parse"]
    ELSE IF \E f \in DOMAIN file : Unmarshal(file[f]).err THEN [err |-> "parse"]
    ELSE [err |-> "nil",
          keystore |-> [f \in DOMAIN file |-> Unmarshal(file[f]).out]]

NoWallet == [name |-> <<>>, address |-> <<>>, seed |-> <<>>]

\* The result of a call of the wallet manager: the operation, the name it was
\* about, its error and what it returned.
NoCall ==
    [op |-> "none", name |-> <<>>, err |-> "nil", wallet |-> NoWallet, list |-> {},
     exists |-> FALSE]

\* LoadWallet: loadKeystore, the three hex.DecodeString, the key from the
\* password and the salt, decrypt; the Wallet from the keystore's name and
\* address and the decrypted seed.
Loaded(dir, name, password) ==
    LET k == loadKeystore(dir, name) IN
    IF k.err # "nil" THEN [err |-> "load", wallet |-> NoWallet]
    ELSE LET salt == DecodeString(k.keystore.salt)
             seed == DecodeString(k.keystore.encrypted_seed)
             nonce == DecodeString(k.keystore.nonce)
         IN  IF salt.err THEN [err |-> "salt", wallet |-> NoWallet]
             ELSE IF seed.err THEN [err |-> "seed", wallet |-> NoWallet]
             ELSE IF nonce.err THEN [err |-> "nonce", wallet |-> NoWallet]
             ELSE LET plain == decrypt(seed.out, Key(password, salt.out), nonce.out)
                  IN  IF plain.err THEN [err |-> "decrypt", wallet |-> NoWallet]
                      ELSE [err |-> "nil",
                            wallet |-> [name |-> k.keystore.name,
                                        address |-> k.keystore.address,
                                        seed |-> plain.out]]

\* ListWallets: the name and address of every name.json that loadKeystore
\* can load; the others are skipped.
Listed(dir) ==
    {[name |-> loadKeystore(dir, n).keystore.name,
      address |-> loadKeystore(dir, n).keystore.address] :
        n \in {m \in DOMAIN dir : loadKeystore(dir, m).err = "nil"}}

\* ------------------------------------------------ build command (cli)
\* An error message is the sequence of its words; nil is the empty sequence.
\* Contains: strings.Contains, on whole words.
Contains(msg, part) ==
    \E k \in 0..(Len(msg) - Len(part)) : SubSeq(msg, k + 1, k + Len(part)) = part

\* bedrock.toml in the working directory: not there, there and not TOML, or
\* a project file.
TomlFiles == {"absent", "invalid", "valid"}

\* config.Load's errors: "failed to read config file: %w" around the error of
\* os.ReadFile, "failed to parse config: %w" around the one of toml.Unmarshal.
Load(file) ==
    CASE file = "absent" ->
            <<"failed", "to", "read", "config", "file:", "open", "bedrock.toml:",
              "no", "such", "file", "or", "directory">>
      [] file = "invalid" ->
            <<"failed", "to", "parse", "config:", "toml:", "expected", "character", "=">>
      [] OTHER -> <<>>

\* Errors of builder.Build: no cargo, the wasm32 target, no Cargo.toml, cargo
\* build, no .wasm output.
BuildErrors ==
    {<<"cargo", "not", "found">>,
     <<"failed", "to", "add", "wasm32", "target:", "exit", "status", "1">>,
     <<"Cargo.toml", "not", "found", "in", "contract">>,
     <<"cargo", "build", "failed:", "exit", "status", "101">>,
     <<"failed", "to", "find", "WASM", "output:", "no", ".wasm", "file">>}

VARIABLES
    host,             \* the program: "inprocess", "node", "detached", "wallet", "build"
    configKey,        \* the ledger_interval key of the project's bedrock.toml
    interval,         \* cfg.LocalNode.LedgerInterval, then s.interval and the daemon's
                      \* --interval, in milliseconds
    running,          \* s.running
    cancel,           \* s.cancel: 0 is nil, g the CancelFunc of goroutine g's context
    ledgersAdvanced,  \* s.ledgersAdvanced
    lastLedgerIndex,  \* s.lastLedgerIndex
    lastError,        \* s.lastError
    muWriter,         \* s.mu: the goroutine holding the write lock, 0 none
    muReaders,        \* s.mu: number of read locks held
    runs,             \* successful Start calls so far
    pc,               \* pc[g]: position of loop goroutine g
    ctxDone,          \* ctxDone[g]: g's serviceCtx is cancelled
    tick,             \* tick[g]: a tick is buffered in g's ticker.C
    inflight,         \* inflight[g]: ledger_accept requests of g not yet answered
    result,           \* result[g]: result.LedgerCurrentIndex held by g while it writes
    attempts,         \* attempts[g]: requests issued by g
    consumed,         \* consumed[g]: ticks g received from ticker.C
    rpc,              \* position of the GetStatus caller
    snapshot,         \* the LedgerServiceStatus the GetStatus caller is filling
    dpc,              \* position of the daemon's main goroutine
    probes,           \* i of the readiness loop
    notify,           \* signal.Notify(sigCh, SIGINT, SIGTERM) has run
    sigCh,            \* a signal is buffered in sigCh (capacity 1)
    handler,          \* position of the goroutine that waits on sigCh
    dctxDone,         \* the daemon's ctx is cancelled
    dtick,            \* a tick is buffered in the daemon's ticker.C
    ledgerCount,      \* ledgerCount
    dinflight,        \* requests of the daemon's loop not yet answered
    dattempts,        \* requests issued by the daemon's loop
    dconsumed,        \* ticks the daemon's loop received
    mpc,              \* position of Manager.Start and of its WaitForReady
    elapsed,          \* tenths of a second since WaitForReady was called
    mctxDone,         \* the ctx handed to Manager.Start is cancelled
    container,        \* the node container: "absent", "running" or "stopped"
    mret,             \* what Manager.Start returned
    warning,          \* the warning Manager.Start printed
    mstop,            \* Manager.Stop: "none" before it, "service" when it is past the
                      \* ledger service, then what it returned
    pidFile,          \* content of .bedrock/ledger-daemon.pid, NoFile when absent
    sup,              \* position of the supervisor's caller inside Start or Stop
    ret,              \* the latest supervisor call: what it read and returned
    walletsDir,       \* wm.walletsDir: the keystore file under each name
    wret,             \* the latest call of the wallet manager and its result
    stored,           \* history: the wallets saved and not removed, with their passwords
    tomlFile,         \* bedrock.toml in the build command's working directory
    buildWatch,       \* the --watch flag
    bpc,              \* position of runBuild
    bret,             \* the error runBuild returned
    builderCalls,     \* history: calls of builder.Build
    sret,             \* what the latest call of LedgerService.Start or Stop did
    calls,            \* history: <<"Start">> after a Start that returned nil, <<"Start",
                      \* "Stop">> when the next call was a Stop that returned nil
    sigSent,          \* history: a termination signal reached the process
    okCount,          \* history: attempts that succeeded since the last Start
    failCount,        \* history: attempts that failed since the last Start
    lastAttempt,      \* history: outcome of the latest completed attempt since Start
    committed         \* history: the fields as the latest critical section left them

vars == <<host, configKey, interval, running, cancel, ledgersAdvanced, lastLedgerIndex, lastError, muWriter,
          muReaders, runs, pc, ctxDone, tick, inflight, result, attempts, consumed,
          rpc, snapshot, dpc, probes, notify, sigCh, handler, dctxDone, dtick,
          ledgerCount, dinflight, dattempts, dconsumed, mpc, elapsed, mctxDone,
          container, mret, warning, mstop, pidFile, sup, ret, calls, walletsDir, wret, stored,
          tomlFile, buildWatch, bpc, bret, builderCalls, sret,
          sigSent, okCount, failCount, lastAttempt, committed>>

fields == <<running, cancel, ledgersAdvanced, lastLedgerIndex, lastError>>
loopVars == <<pc, ctxDone, tick, inflight, result, attempts, consumed>>
readerVars == <<rpc, snapshot>>
history == <<okCount, failCount, lastAttempt, committed>>
daemonVars == <<dpc, probes, notify, sigCh, handler, dctxDone, dtick, ledgerCount,
                dinflight, dattempts, dconsumed, sigSent>>
supVars == <<pidFile, sup, ret, calls>>
managerVars == <<mpc, elapsed, mctxDone, container, mret, warning, mstop>>
walletVars == <<walletsDir, wret, stored>>
\* The state of the commands that have nothing to do with the node.
buildVars == <<tomlFile, buildWatch, bpc, bret, builderCalls>>
toolVars == <<walletVars, buildVars>>
\* What a step of the service leaves alone, what a step of the daemon process
\* does, and what a step of the supervisor does.
apiSide == <<host, configKey, interval, daemonVars, supVars, managerVars, toolVars>>
daemonSide == <<apiSide, sret>>
serviceSide == <<host, configKey, interval, fields, muWriter, muReaders, runs, loopVars, readerVars,
                 lastAttempt, committed, supVars, managerVars, toolVars, sret>>
supervisorSide == <<host, configKey, interval, fields, muWriter, muReaders, runs, loopVars,
                    readerVars, history, managerVars, toolVars, sret>>
\* What a step of Manager.Start before LedgerService.Start leaves alone.
managerSide == <<host, configKey, interval, daemonVars, supVars, fields, muWriter, muReaders, runs,
                 loopVars, readerVars, history, toolVars, sret>>

\* The part of the service a LedgerServiceStatus shows.
Status(r, a, i, e) == [running |-> r, adv |-> a, idx |-> i, err |-> e]

NoSnapshot == Status(FALSE, 0, 0, "")

RECURSIVE SumTo(_, _)
SumTo(f, n) == IF n = 0 THEN 0 ELSE f[n] + SumTo(f, n - 1)

\* Requests still allowed by MaxAttempts: the ones issued are spent, and a loop
\* that has not made its first request yet holds one.
Budget ==
    MaxAttempts - SumTo([g \in G |-> attempts[g] + IF pc[g] = "spawned" THEN 1 ELSE 0],
                        MaxRuns) - dattempts

\* The programs of the model.  "inprocess": a program that starts the node
\* through the Manager and then calls the LedgerService it got; "node": the
\* program that owns a Manager, either the command "node start", which goes on
\* to startLedgerDaemon and ends, or one that calls Manager.Stop; "detached":
\* the commands that come after a "node start" whose Manager.Start started no
\* ledger service, and the daemon process.  A command's process is followed no
\* further than its last statement.
ProcessLive == sup # "exited"

ManagerHost == host \in {"inprocess", "node"}

ServiceHost == host = "inprocess" \/ (host = "node" /\ ProcessLive)

DaemonHost == host = "detached" \/ (host = "node" /\ ProcessLive)

\* nodeStart is past manager.Start, which returned nil, and has not called
\* startLedgerDaemon yet (the node host), or no "node stop" has taken the
\* container away since (the detached host).
NodeStarted ==
    \/ host = "detached" /\ mstop = "none"
    \/ host = "node" /\ mpc \in {"started", "returned"} /\ ret.op = "none" /\ mstop = "none"

\* The node answers a request only while its container runs.  A request may
\* fail at any time, except in the node host once the node has answered
\* WaitForReady: from then on it answers while its container runs.
NodeUp == container = "running"

MayFail == ~(host = "node" /\ mpc = "started" /\ container = "running")

\* sync.RWMutex: Lock needs no holder at all, RLock no writer.
CanLock == muWriter = 0 /\ muReaders = 0

CanRLock == muWriter = 0

\* NewLedgerService: the zero values of the struct.
Init ==
    /\ host \in {"inprocess", "node", "detached", "wallet", "build"}
    /\ configKey \in IF host \in {"inprocess", "node", "detached"} THEN ConfigKeys
                                                          ELSE {<<DefaultInterval>>}
    /\ interval = LoadLedgerInterval(configKey)
    /\ dpc = "none"
    /\ mpc = IF ManagerHost THEN "begin" ELSE "returned"
    /\ elapsed = 0
    /\ mctxDone = FALSE
    /\ container = IF ManagerHost THEN "absent" ELSE "running"
    /\ mret = IF ManagerHost THEN "none" ELSE "nil"
    /\ warning = "none"
    /\ mstop = "none"
    /\ pidFile \in IF host = "detached" THEN InitialPidFiles ELSE {NoFile}
    /\ sup = "idle"
    /\ ret = [op |-> "none", val |-> "nil", read |-> NoFile]
    /\ calls = <<>>
    /\ walletsDir = [n \in StorableNames |-> NoKeystore]
    /\ wret = NoCall
    /\ stored = {}
    /\ tomlFile \in IF host = "build" THEN TomlFiles ELSE {"valid"}
    /\ buildWatch \in IF host = "build" THEN BOOLEAN ELSE {FALSE}
    /\ bpc = "begin"
    /\ bret = <<>>
    /\ builderCalls = 0
    /\ sret = "none"
    /\ probes = 0
    /\ notify = FALSE
    /\ sigCh = FALSE
    /\ handler = "none"
    /\ dctxDone = FALSE
    /\ dtick = FALSE
    /\ ledgerCount = 0
    /\ dinflight = 0
    /\ dattempts = 0
    /\ dconsumed = 0
    /\ sigSent = FALSE
    /\ running = FALSE
    /\ cancel = 0
    /\ ledgersAdvanced = 0
    /\ lastLedgerIndex = 0
    /\ lastError = ""
    /\ muWriter = 0
    /\ muReaders = 0
    /\ runs = 0
    /\ pc = [g \in G |-> "idle"]
    /\ ctxDone = [g \in G |-> FALSE]
    /\ tick = [g \in G |-> FALSE]
    /\ inflight = [g \in G |-> 0]
    /\ result = [g \in G |-> 0]
    /\ attempts = [g \in G |-> 0]
    /\ consumed = [g \in G |-> 0]
    /\ rpc = "idle"
    /\ snapshot = NoSnapshot
    /\ okCount = 0
    /\ failCount = 0
    /\ lastAttempt = "none"
    /\ committed = Status(FALSE, 0, 0, "")

\* ------------------------------------- Manager.Start and WaitForReady
\* ContainerCreate or ContainerStart fails: Manager.Start returns the error.
ManagerContainerFail ==
    /\ ManagerHost
    /\ mpc = "begin"
    /\ mpc' = "nocontainer"
    /\ mret' = "error"
    /\ UNCHANGED <<elapsed, mctxDone, container, warning, mstop>>
    /\ UNCHANGED managerSide

\* The container is created and started.  Without an interval above 0 no
\* ledger service is built and Manager.Start returns nil.
ManagerContainerStart ==
    /\ ManagerHost
    /\ mpc = "begin"
    /\ container' = "running"
    /\ mpc' = IF interval > 0 THEN "create" ELSE "returned"
    /\ mret' = IF interval > 0 THEN mret ELSE "nil"
    /\ UNCHANGED <<elapsed, mctxDone, warning, mstop>>
    /\ UNCHANGED managerSide

\* Faulty Manager.Start: the error of NewLedgerService is returned.
ManagerCreateFailFatal ==
    /\ ManagerHost
    /\ mpc = "create"
    /\ mpc' = "failed"
    /\ mret' = "error"
    /\ UNCHANGED <<elapsed, mctxDone, container, warning, mstop>>
    /\ UNCHANGED managerSide

\* NewLedgerService fails: "Warning: failed to create ledger service",
\* return nil.
ManagerCreateFail ==
    /\ ManagerHost
    /\ mpc = "create"
    /\ mpc' = "returned"
    /\ warning' = "create"
    /\ mret' = "nil"
    /\ UNCHANGED <<elapsed, mctxDone, container, mstop>>
    /\ UNCHANGED managerSide

\* NewLedgerService succeeds and WaitForReady is called:
\* deadline := time.Now().Add(timeout).
ManagerCreate ==
    /\ ManagerHost
    /\ mpc = "create"
    /\ mpc' = "top"
    /\ elapsed' = 0
    /\ UNCHANGED <<mctxDone, container, mret, warning, mstop>>
    /\ UNCHANGED managerSide

\* The owner of ctx cancels it while WaitForReady runs.
ManagerCtxCancel ==
    /\ host = "inprocess"
    /\ mpc \in {"top", "request", "sleep"}
    /\ ~mctxDone
    /\ mctxDone' = TRUE
    /\ UNCHANGED <<mpc, elapsed, container, mret, warning, mstop>>
    /\ UNCHANGED managerSide

\* for time.Now().Before(deadline) is false: "timeout waiting for node to be
\* ready" is returned.
WaitDeadline ==
    /\ ManagerHost
    /\ mpc = "top"
    /\ elapsed >= DefaultNodeReadyTimeout
    /\ mpc' = "timeout"
    /\ UNCHANGED <<elapsed, mctxDone, container, mret, warning, mstop>>
    /\ UNCHANGED managerSide

\* select, case <-ctx.Done(): return ctx.Err().
WaitCtxDone ==
    /\ ManagerHost
    /\ mpc = "top"
    /\ elapsed < DefaultNodeReadyTimeout
    /\ mctxDone
    /\ mpc' = "cancelled"
    /\ UNCHANGED <<elapsed, mctxDone, container, mret, warning, mstop>>
    /\ UNCHANGED managerSide

\* select, default: the ledger_accept request is sent.
WaitRequest ==
    /\ ManagerHost
    /\ mpc = "top"
    /\ elapsed < DefaultNodeReadyTimeout
    /\ ~mctxDone
    /\ mpc' = "request"
    /\ UNCHANGED <<elapsed, mctxDone, container, mret, warning, mstop>>
    /\ UNCHANGED managerSide

\* Faulty WaitForReady: the error of a failed request is returned.
WaitRequestFailReturned(r) ==
    /\ ManagerHost
    /\ mpc = "request"
    /\ elapsed' = elapsed + r
    /\ mpc' = "failed"
    /\ mret' = "error"
    /\ UNCHANGED <<mctxDone, container, warning, mstop>>
    /\ UNCHANGED managerSide

\* The request fails after r tenths of a second: the error is dropped,
\* time.Sleep(500ms) begins.
WaitRequestFail(r) ==
    /\ ManagerHost
    /\ mpc = "request"
    /\ elapsed' = elapsed + r
    /\ mpc' = "sleep"
    /\ UNCHANGED <<mctxDone, container, mret, warning, mstop>>
    /\ UNCHANGED managerSide

\* The request succeeds after r tenths of a second: WaitForReady returns nil.
WaitRequestOk(r) ==
    /\ ManagerHost
    /\ mpc = "request"
    /\ elapsed' = elapsed + r
    /\ mpc' = "ready"
    /\ UNCHANGED <<mctxDone, container, mret, warning, mstop>>
    /\ UNCHANGED managerSide

\* The sleep ends; back to the loop's condition.
WaitSleepDone ==
    /\ ManagerHost
    /\ mpc = "sleep"
    /\ elapsed' = elapsed + PollInterval
    /\ mpc' = "top"
    /\ UNCHANGED <<mctxDone, container, mret, warning, mstop>>
    /\ UNCHANGED managerSide

\* Faulty Manager.Start: the loop is started although WaitForReady failed.
ManagerNotReadyStarts ==
    /\ ManagerHost
    /\ mpc \in {"timeout", "cancelled"}
    /\ mpc' = "ready"
    /\ warning' = mpc
    /\ UNCHANGED <<elapsed, mctxDone, container, mret, mstop>>
    /\ UNCHANGED managerSide

\* WaitForReady returned an error: "Warning: timeout waiting for node to be
\* ready: " and the error, return nil; LedgerService.Start is not called.
ManagerNotReady ==
    /\ ManagerHost
    /\ mpc \in {"timeout", "cancelled"}
    /\ mpc' = "returned"
    /\ warning' = mpc
    /\ mret' = "nil"
    /\ elapsed' = 0
    /\ mctxDone' = FALSE
    /\ UNCHANGED <<container, mstop>>
    /\ UNCHANGED managerSide

\* ------------------------------------------------------- Start and Stop
\* Start on a stopped service: the whole critical section and the go statement.
\* Its first caller is Manager.Start, once WaitForReady has returned nil, which
\* then keeps the service and returns nil; its ctx and the time WaitForReady
\* took are of no use from then on.
Start ==
    /\ host \in {"inprocess", "node"}
    /\ mpc \in IF host = "node" THEN {"ready"} ELSE {"ready", "started"}
    /\ mpc' = "started"
    /\ mret' = "nil"
    /\ elapsed' = 0
    /\ mctxDone' = FALSE
    /\ UNCHANGED <<host, configKey, interval, daemonVars, supVars, container, warning,
                   mstop, toolVars>>
    /\ sret' = "nil"
    /\ CanLock
    /\ ~running
    /\ runs < MaxRuns
    /\ Budget > 0
    /\ LET g == runs + 1 IN
        /\ runs' = g
        /\ cancel' = g
        /\ running' = TRUE
        /\ ledgersAdvanced' = 0
        /\ lastError' = ""
        /\ pc' = [pc EXCEPT ![g] = "spawned"]
        /\ okCount' = 0
        /\ failCount' = 0
        /\ lastAttempt' = "none"
        /\ committed' = Status(TRUE, 0, lastLedgerIndex, "")
    /\ UNCHANGED <<lastLedgerIndex, muWriter, muReaders, ctxDone, tick, inflight,
                   result, attempts, consumed, readerVars>>

\* Faulty Start: the fields are reset before s.running is looked at.
StartAlreadyRunningResets ==
    /\ host = "inprocess"
    /\ UNCHANGED apiSide
    /\ CanLock
    /\ running
    /\ sret' = "already"
    /\ ledgersAdvanced' = 0
    /\ lastError' = ""
    /\ UNCHANGED <<running, cancel, lastLedgerIndex, muWriter, muReaders, runs, loopVars,
                   readerVars, history>>

\* Start on a running service returns "ledger service is already running".
StartAlreadyRunning ==
    /\ host = "inprocess"
    /\ UNCHANGED apiSide
    /\ CanLock
    /\ running
    /\ sret' = "already"
    /\ UNCHANGED <<fields, muWriter, muReaders, runs, loopVars, readerVars, history>>

\* Stop on a running service: cancel the loop's context, clear the flag.
Stop ==
    /\ host = "inprocess"
    /\ UNCHANGED apiSide
    /\ sret' = "stopped"
    /\ CanLock
    /\ running
    /\ ctxDone' = IF cancel # 0 THEN [ctxDone EXCEPT ![cancel] = TRUE] ELSE ctxDone
    /\ cancel' = 0
    /\ running' = FALSE
    /\ committed' = Status(FALSE, ledgersAdvanced, lastLedgerIndex, lastError)
    /\ UNCHANGED <<ledgersAdvanced, lastLedgerIndex, lastError, muWriter, muReaders,
                   runs, pc, tick, inflight, result, attempts, consumed, readerVars,
                   okCount, failCount, lastAttempt>>

\* Stop on a service that is not running returns at once.
StopNotRunning ==
    /\ host = "inprocess"
    /\ UNCHANGED apiSide
    /\ CanLock
    /\ ~running
    /\ sret' = "noop"
    /\ UNCHANGED <<fields, muWriter, muReaders, runs, loopVars, readerVars, history>>

\* The context handed to Start is cancelled by its owner: serviceCtx, its child,
\* is cancelled with it; no field of the service changes.
ParentCancel(g) ==
    /\ host = "inprocess"
    /\ UNCHANGED daemonSide
    /\ pc[g] # "idle"
    /\ ~ctxDone[g]
    /\ ctxDone' = [ctxDone EXCEPT ![g] = TRUE]
    /\ UNCHANGED <<fields, muWriter, muReaders, runs, pc, tick, inflight, result,
                   attempts, consumed, readerVars, history>>

\* ------------------------------------------------ run and advanceLedger
\* Faulty run: the loop is entered without the first advanceLedger, so the
\* first request waits for the first tick.
RunFirstWaits(g) ==
    /\ ServiceHost
    /\ UNCHANGED daemonSide
    /\ pc[g] = "spawned"
    /\ pc' = [pc EXCEPT ![g] = "select"]
    /\ UNCHANGED <<fields, muWriter, muReaders, runs, ctxDone, tick, inflight, result,
                   attempts, consumed, readerVars, history>>

\* run's entry: NewTicker, then the first advanceLedger at once, with no look
\* at ctx; advanceLedger sends its request.
RunFirst(g) ==
    /\ ServiceHost
    /\ UNCHANGED daemonSide
    /\ pc[g] = "spawned"
    /\ pc' = [pc EXCEPT ![g] = "request"]
    /\ inflight' = [inflight EXCEPT ![g] = @ + 1]
    /\ attempts' = [attempts EXCEPT ![g] = @ + 1]
    /\ UNCHANGED <<fields, muWriter, muReaders, runs, ctxDone, tick, result, consumed,
                   readerVars, history>>

\* The ticker's period elapses: ticker.C holds at most one tick, a tick that
\* finds the channel full is dropped.
TickerFire(g) ==
    /\ ServiceHost
    /\ UNCHANGED daemonSide
    /\ pc[g] \in {"request", "w_idx", "w_err", "select"}
    /\ ~tick[g]
    /\ tick' = [tick EXCEPT ![g] = TRUE]
    /\ UNCHANGED <<fields, muWriter, muReaders, runs, pc, ctxDone, inflight, result,
                   attempts, consumed, readerVars, history>>

\* Faulty advanceLedger: a failed attempt is counted as an advanced ledger.
AdvanceFailCounted(g, e) ==
    /\ ServiceHost
    /\ MayFail
    /\ UNCHANGED daemonSide
    /\ pc[g] = "request"
    /\ inflight[g] > 0
    /\ CanLock
    /\ lastError' = e
    /\ ledgersAdvanced' = ledgersAdvanced + 1
    /\ inflight' = [inflight EXCEPT ![g] = @ - 1]
    /\ pc' = [pc EXCEPT ![g] = "select"]
    /\ failCount' = failCount + 1
    /\ lastAttempt' = e
    /\ committed' = Status(running, ledgersAdvanced + 1, lastLedgerIndex, e)
    /\ UNCHANGED <<running, cancel, lastLedgerIndex, muWriter, muReaders, runs,
                   ctxDone, tick, result, attempts, consumed, readerVars, okCount>>

\* Faulty advanceLedger: an error ends the loop (run returns on failure).
AdvanceFailExit(g, e) ==
    /\ ServiceHost
    /\ MayFail
    /\ UNCHANGED daemonSide
    /\ pc[g] = "request"
    /\ inflight[g] > 0
    /\ CanLock
    /\ lastError' = e
    /\ inflight' = [inflight EXCEPT ![g] = @ - 1]
    /\ pc' = [pc EXCEPT ![g] = "done"]
    /\ tick' = [tick EXCEPT ![g] = FALSE]
    /\ failCount' = failCount + 1
    /\ lastAttempt' = e
    /\ committed' = Status(running, ledgersAdvanced, lastLedgerIndex, e)
    /\ UNCHANGED <<running, cancel, ledgersAdvanced, lastLedgerIndex, muWriter,
                   muReaders, runs, ctxDone, result, attempts, consumed,
                   readerVars, okCount>>

\* Faulty advanceLedger: a failed request is sent again at once, within the tick.
AdvanceFailRetry(g, e) ==
    /\ ServiceHost
    /\ MayFail
    /\ UNCHANGED daemonSide
    /\ pc[g] = "request"
    /\ inflight[g] > 0
    /\ CanLock
    /\ Budget > 0
    /\ lastError' = e
    /\ attempts' = [attempts EXCEPT ![g] = @ + 1]
    /\ failCount' = failCount + 1
    /\ lastAttempt' = e
    /\ committed' = Status(running, ledgersAdvanced, lastLedgerIndex, e)
    /\ UNCHANGED <<running, cancel, ledgersAdvanced, lastLedgerIndex, muWriter,
                   muReaders, runs, pc, ctxDone, tick, inflight, result, consumed,
                   readerVars, okCount>>

\* advanceLedger, failure: client.Request or resp.GetResult returned err e;
\* Lock, lastError = e, Unlock, return.
AdvanceFail(g, e) ==
    /\ ServiceHost
    /\ MayFail
    /\ UNCHANGED daemonSide
    /\ pc[g] = "request"
    /\ inflight[g] > 0
    /\ CanLock
    /\ lastError' = e
    /\ inflight' = [inflight EXCEPT ![g] = @ - 1]
    /\ pc' = [pc EXCEPT ![g] = "select"]
    /\ failCount' = failCount + 1
    /\ lastAttempt' = e
    /\ committed' = Status(running, ledgersAdvanced, lastLedgerIndex, e)
    /\ UNCHANGED <<running, cancel, ledgersAdvanced, lastLedgerIndex, muWriter,
                   muReaders, runs, ctxDone, tick, result, attempts, consumed,
                   readerVars, okCount>>

\* Faulty advanceLedger: the atomic add is done before, and without, the Lock.
AdvanceOkAtomicFirst(g, i) ==
    /\ ServiceHost
    /\ NodeUp
    /\ UNCHANGED daemonSide
    /\ pc[g] = "request"
    /\ inflight[g] > 0
    /\ ledgersAdvanced' = ledgersAdvanced + 1
    /\ result' = [result EXCEPT ![g] = i]
    /\ inflight' = [inflight EXCEPT ![g] = @ - 1]
    /\ pc' = [pc EXCEPT ![g] = "w_idx"]
    /\ UNCHANGED <<running, cancel, lastLedgerIndex, lastError, muWriter, muReaders,
                   runs, ctxDone, tick, attempts, consumed, readerVars, history>>

\* advanceLedger, success: the node answered with ledger_current_index i;
\* Lock, atomic.AddUint64(&s.ledgersAdvanced, 1).
AdvanceOkLock(g, i) ==
    /\ ServiceHost
    /\ NodeUp
    /\ UNCHANGED daemonSide
    /\ pc[g] = "request"
    /\ inflight[g] > 0
    /\ CanLock
    /\ muWriter' = g
    /\ ledgersAdvanced' = ledgersAdvanced + 1
    /\ result' = [result EXCEPT ![g] = i]
    /\ inflight' = [inflight EXCEPT ![g] = @ - 1]
    /\ pc' = [pc EXCEPT ![g] = "w_idx"]
    /\ UNCHANGED <<running, cancel, lastLedgerIndex, lastError, muReaders, runs,
                   ctxDone, tick, attempts, consumed, readerVars, history>>

\* Faulty advanceLedger: the index is only ever raised.
AdvanceSetIndexMax(g) ==
    /\ ServiceHost
    /\ UNCHANGED daemonSide
    /\ pc[g] = "w_idx"
    /\ lastLedgerIndex' = IF result[g] > lastLedgerIndex THEN result[g]
                                                         ELSE lastLedgerIndex
    /\ pc' = [pc EXCEPT ![g] = "w_err"]
    /\ UNCHANGED <<running, cancel, ledgersAdvanced, lastError, muWriter, muReaders,
                   runs, ctxDone, tick, inflight, result, attempts, consumed,
                   readerVars, history>>

\* s.lastLedgerIndex = result.LedgerCurrentIndex
AdvanceSetIndex(g) ==
    /\ ServiceHost
    /\ UNCHANGED daemonSide
    /\ pc[g] = "w_idx"
    /\ lastLedgerIndex' = result[g]
    /\ pc' = [pc EXCEPT ![g] = "w_err"]
    /\ UNCHANGED <<running, cancel, ledgersAdvanced, lastError, muWriter, muReaders,
                   runs, ctxDone, tick, inflight, result, attempts, consumed,
                   readerVars, history>>

\* Faulty advanceLedger: a success leaves the previous error in place.
AdvanceKeepErr(g) ==
    /\ ServiceHost
    /\ UNCHANGED daemonSide
    /\ pc[g] = "w_err"
    /\ muWriter' = 0
    /\ result' = [result EXCEPT ![g] = 0]
    /\ pc' = [pc EXCEPT ![g] = "select"]
    /\ okCount' = okCount + 1
    /\ lastAttempt' = "ok"
    /\ committed' = Status(running, ledgersAdvanced, lastLedgerIndex, lastError)
    /\ UNCHANGED <<running, cancel, ledgersAdvanced, lastLedgerIndex, lastError,
                   muReaders, runs, ctxDone, tick, inflight, attempts, consumed,
                   readerVars, failCount>>

\* s.lastError = "", Unlock, return to the loop.
AdvanceClearErr(g) ==
    /\ ServiceHost
    /\ UNCHANGED daemonSide
    /\ pc[g] = "w_err"
    /\ lastError' = ""
    /\ muWriter' = 0
    /\ result' = [result EXCEPT ![g] = 0]
    /\ pc' = [pc EXCEPT ![g] = "select"]
    /\ okCount' = okCount + 1
    /\ lastAttempt' = "ok"
    /\ committed' = Status(running, ledgersAdvanced, lastLedgerIndex, "")
    /\ UNCHANGED <<running, cancel, ledgersAdvanced, lastLedgerIndex, muReaders, runs,
                   ctxDone, tick, inflight, attempts, consumed, readerVars, failCount>>

\* Faulty run: "break" in the ctx.Done case leaves the select, not the for loop.
LoopCancelBreak(g) ==
    /\ ServiceHost
    /\ pc[g] = "select"
    /\ ctxDone[g]
    /\ UNCHANGED vars

\* select, case <-ctx.Done(): return (the deferred ticker.Stop runs).  When a
\* tick is buffered too, Go's select takes either case.
LoopCancel(g) ==
    /\ ServiceHost
    /\ UNCHANGED daemonSide
    /\ pc[g] = "select"
    /\ ctxDone[g]
    /\ pc' = [pc EXCEPT ![g] = "done"]
    /\ tick' = [tick EXCEPT ![g] = FALSE]
    /\ UNCHANGED <<fields, muWriter, muReaders, runs, ctxDone, inflight, result,
                   attempts, consumed, readerVars, history>>

\* Faulty run: the tick starts advanceLedger in a goroutine of its own and the
\* loop goes back to the select.
LoopTickAsync(g) ==
    /\ ServiceHost
    /\ UNCHANGED daemonSide
    /\ pc[g] = "select"
    /\ tick[g]
    /\ Budget > 0
    /\ tick' = [tick EXCEPT ![g] = FALSE]
    /\ consumed' = [consumed EXCEPT ![g] = @ + 1]
    /\ attempts' = [attempts EXCEPT ![g] = @ + 1]
    /\ inflight' = [inflight EXCEPT ![g] = @ + 1]
    /\ UNCHANGED <<fields, muWriter, muReaders, runs, pc, ctxDone, result, readerVars,
                   history>>

\* select, case <-ticker.C: advanceLedger sends its request.
LoopTick(g) ==
    /\ ServiceHost
    /\ UNCHANGED daemonSide
    /\ pc[g] = "select"
    /\ tick[g]
    /\ Budget > 0
    /\ tick' = [tick EXCEPT ![g] = FALSE]
    /\ consumed' = [consumed EXCEPT ![g] = @ + 1]
    /\ attempts' = [attempts EXCEPT ![g] = @ + 1]
    /\ inflight' = [inflight EXCEPT ![g] = @ + 1]
    /\ pc' = [pc EXCEPT ![g] = "request"]
    /\ UNCHANGED <<fields, muWriter, muReaders, runs, ctxDone, result, readerVars,
                   history>>

\* ------------------------------------------------------------ GetStatus
\* s.mu.RLock(); Running and LedgersAdvanced are read.
GetStatusRLock ==
    /\ host = "inprocess"
    /\ UNCHANGED daemonSide
    /\ rpc = "idle"
    /\ CanRLock
    /\ muReaders' = muReaders + 1
    /\ snapshot' = [snapshot EXCEPT !.running = running, !.adv = ledgersAdvanced]
    /\ rpc' = "counted"
    /\ UNCHANGED <<fields, muWriter, runs, loopVars, history>>

\* LastLedgerIndex and LastError are read: the status is complete.
GetStatusReadRest ==
    /\ host = "inprocess"
    /\ UNCHANGED daemonSide
    /\ rpc = "counted"
    /\ snapshot' = [snapshot EXCEPT !.idx = lastLedgerIndex, !.err = lastError]
    /\ rpc' = "complete"
    /\ UNCHANGED <<fields, muWriter, muReaders, runs, loopVars, history>>

\* The deferred RUnlock; the status goes to the caller.
GetStatusReturn ==
    /\ host = "inprocess"
    /\ UNCHANGED daemonSide
    /\ rpc = "complete"
    /\ muReaders' = IF muReaders > 0 THEN muReaders - 1 ELSE 0
    /\ snapshot' = NoSnapshot
    /\ rpc' = "idle"
    /\ UNCHANGED <<fields, muWriter, runs, loopVars, history>>

\* ------------------------------------------- runLedgerDaemon (slate.go)
\* Requests the daemon's loop may still issue.
DaemonBudget == MaxAttempts - dattempts - SumTo(attempts, MaxRuns)

\* The process begins: flags are read, the RPC client is built and the first
\* readiness request is sent.
DaemonStart ==
    /\ DaemonHost
    /\ dpc = "start"
    /\ dpc' = "probe"
    /\ UNCHANGED <<probes, notify, sigCh, handler, dctxDone, dtick, ledgerCount,
                   dinflight, dattempts, dconsumed, sigSent, okCount, failCount>>
    /\ UNCHANGED serviceSide

\* A readiness request succeeds: ready = true, break; i ends with the loop.
DaemonProbeOk ==
    /\ DaemonHost
    /\ NodeUp
    /\ dpc = "probe"
    /\ dpc' = "ready"
    /\ probes' = 0
    /\ UNCHANGED <<notify, sigCh, handler, dctxDone, dtick, ledgerCount,
                   dinflight, dattempts, dconsumed, sigSent, okCount, failCount>>
    /\ UNCHANGED serviceSide

\* A readiness request fails: the error is dropped, time.Sleep(500ms).
DaemonProbeFail ==
    /\ DaemonHost
    /\ MayFail
    /\ dpc = "probe"
    /\ dpc' = "sleep"
    /\ UNCHANGED <<probes, notify, sigCh, handler, dctxDone, dtick, ledgerCount,
                   dinflight, dattempts, dconsumed, sigSent, okCount, failCount>>
    /\ UNCHANGED serviceSide

\* Faulty readiness loop: for i := 0; i <= 60; i++.
DaemonSleepDoneOneMore ==
    /\ DaemonHost
    /\ dpc = "sleep"
    /\ probes' = probes + 1
    /\ dpc' = IF probes + 1 <= ReadyAttempts THEN "probe" ELSE "failed"
    /\ UNCHANGED <<notify, sigCh, handler, dctxDone, dtick, ledgerCount,
                   dinflight, dattempts, dconsumed, sigSent, okCount, failCount>>
    /\ UNCHANGED serviceSide

\* The sleep ends: i++, then the next request, or after the last one
\* "timeout waiting for node to be ready" is returned and the process exits.
DaemonSleepDone ==
    /\ DaemonHost
    /\ dpc = "sleep"
    /\ probes' = probes + 1
    /\ dpc' = IF probes + 1 < ReadyAttempts THEN "probe" ELSE "failed"
    /\ UNCHANGED <<notify, sigCh, handler, dctxDone, dtick, ledgerCount,
                   dinflight, dattempts, dconsumed, sigSent, okCount, failCount>>
    /\ UNCHANGED serviceSide

\* After the readiness loop, with an interval that is not above 0: signal.Notify
\* and the handler goroutine, then time.NewTicker panics and the process dies.
DaemonTickerPanic ==
    /\ DaemonHost
    /\ dpc = "ready"
    /\ interval <= 0
    /\ dpc' = "crashed"
    /\ UNCHANGED <<probes, notify, sigCh, handler, dctxDone, dtick, ledgerCount,
                   dinflight, dattempts, dconsumed, sigSent, okCount, failCount>>
    /\ UNCHANGED serviceSide

\* After the readiness loop: signal.Notify, the handler goroutine, NewTicker
\* and the first advanceLedger, which sends its request.
DaemonEnterLoop ==
    /\ DaemonHost
    /\ dpc = "ready"
    /\ interval > 0
    /\ notify' = TRUE
    /\ handler' = "waiting"
    /\ dpc' = "request"
    /\ dinflight' = dinflight + 1
    /\ dattempts' = dattempts + 1
    /\ UNCHANGED <<probes, sigCh, dctxDone, dtick, ledgerCount, dconsumed, sigSent,
                   okCount, failCount>>
    /\ UNCHANGED serviceSide

\* SIGTERM or SIGINT reaches the live process.  Before signal.Notify the
\* default action ends the process; after it the signal goes to sigCh, which
\* keeps one.
Signal ==
    /\ host = "detached"
    /\ dpc \notin {"none", "start", "failed", "exited", "killed", "crashed"}
    /\ sigSent' = TRUE
    /\ IF notify
          THEN /\ sigCh' = TRUE
               /\ UNCHANGED <<dpc, dtick>>
          ELSE /\ dpc' = "killed"
               /\ dtick' = FALSE
               /\ UNCHANGED sigCh
    /\ UNCHANGED <<probes, notify, handler, dctxDone, ledgerCount, dinflight,
                   dattempts, dconsumed, okCount, failCount>>
    /\ UNCHANGED serviceSide

\* The handler goroutine: <-sigCh, cancel(); it then ends.
HandlerCancel ==
    /\ DaemonHost
    /\ handler = "waiting"
    /\ sigCh
    /\ dpc \notin {"exited", "killed", "crashed"}
    /\ sigCh' = FALSE
    /\ handler' = "done"
    /\ dctxDone' = TRUE
    /\ UNCHANGED <<dpc, probes, notify, dtick, ledgerCount, dinflight, dattempts,
                   dconsumed, sigSent, okCount, failCount>>
    /\ UNCHANGED serviceSide

\* The daemon's ticker period elapses.
DaemonTickerFire ==
    /\ DaemonHost
    /\ dpc \in {"request", "select"}
    /\ ~dtick
    /\ dtick' = TRUE
    /\ UNCHANGED <<dpc, probes, notify, sigCh, handler, dctxDone, ledgerCount,
                   dinflight, dattempts, dconsumed, sigSent, okCount, failCount>>
    /\ UNCHANGED serviceSide

\* advanceLedger(client, &ledgerCount), err != nil: the error is logged.
DaemonAdvanceFail ==
    /\ DaemonHost
    /\ MayFail
    /\ dpc = "request"
    /\ dinflight > 0
    /\ dinflight' = dinflight - 1
    /\ dpc' = "select"
    /\ failCount' = failCount + 1
    /\ UNCHANGED <<probes, notify, sigCh, handler, dctxDone, dtick, ledgerCount,
                   dattempts, dconsumed, sigSent, okCount>>
    /\ UNCHANGED serviceSide

\* advanceLedger(client, &ledgerCount), err == nil: *count++.
DaemonAdvanceOk ==
    /\ DaemonHost
    /\ NodeUp
    /\ dpc = "request"
    /\ dinflight > 0
    /\ dinflight' = dinflight - 1
    /\ ledgerCount' = ledgerCount + 1
    /\ dpc' = "select"
    /\ okCount' = okCount + 1
    /\ UNCHANGED <<probes, notify, sigCh, handler, dctxDone, dtick, dattempts,
                   dconsumed, sigSent, failCount>>
    /\ UNCHANGED serviceSide

\* select, case <-ctx.Done(): return nil; the process exits.
DaemonLoopCancel ==
    /\ DaemonHost
    /\ dpc = "select"
    /\ dctxDone
    /\ dpc' = "exited"
    /\ dtick' = FALSE
    /\ UNCHANGED <<probes, notify, sigCh, handler, dctxDone, ledgerCount, dinflight,
                   dattempts, dconsumed, sigSent, okCount, failCount>>
    /\ UNCHANGED serviceSide

\* select, case <-ticker.C: advanceLedger sends its request.
DaemonLoopTick ==
    /\ DaemonHost
    /\ dpc = "select"
    /\ dtick
    /\ DaemonBudget > 0
    /\ dtick' = FALSE
    /\ dconsumed' = dconsumed + 1
    /\ dattempts' = dattempts + 1
    /\ dinflight' = dinflight + 1
    /\ dpc' = "request"
    /\ UNCHANGED <<probes, notify, sigCh, handler, dctxDone, ledgerCount, sigSent,
                   okCount, failCount>>
    /\ UNCHANGED serviceSide

\* ------------------------------------------- process supervisor (node.go)
\* nodeStart's result from those of manager.Start and startLedgerDaemon: the
\* first is returned when it is an error, the second is only printed.
NodeStartReturn(managerErr, daemonErr) ==
    IF managerErr # "nil" THEN managerErr ELSE "nil"

\* States of the daemon process in which the operating system knows it.
Alive == {"start", "probe", "sleep", "ready", "request", "select"}

\* The operating system's answer to kill(pid, sig): is there such a process.
\* process.Signal returns an error when there is none (and for an ID that is
\* not above 0); os.FindProcess itself never fails on this system.
ProcessExists(pid) == pid = DaemonPid /\ dpc \in Alive

\* What the Start-then-Stop history becomes when a Stop returns nil.
AfterStop == IF calls = <<"Start">> THEN <<"Start", "Stop">> ELSE <<>>

\* startLedgerDaemon fails before a process exists: os.Executable, MkdirAll,
\* OpenFile or cmd.Start returned an error.
StartSpawnFail(e) ==
    /\ NodeStarted
    /\ sup = "idle"
    /\ ret' = [op |-> "Start", val |-> e, read |-> NoFile]
    /\ calls' = <<>>
    /\ UNCHANGED <<pidFile, sup, daemonVars, okCount, failCount>>
    /\ UNCHANGED supervisorSide

\* cmd.Start succeeds: the daemon process exists and begins to run.
StartSpawn ==
    /\ NodeStarted
    /\ sup = "idle"
    /\ dpc = "none"
    /\ dpc' = "start"
    /\ sup' = "spawned"
    /\ UNCHANGED <<pidFile, ret, calls, probes, notify, sigCh, handler, dctxDone, dtick,
                   ledgerCount, dinflight, dattempts, dconsumed, sigSent, okCount,
                   failCount>>
    /\ UNCHANGED supervisorSide

\* os.WriteFile(pidFile, strconv.Itoa(cmd.Process.Pid)) succeeds; the reaper
\* goroutine is started and startLedgerDaemon returns nil.
StartWritePid ==
    /\ DaemonHost
    /\ sup = "spawned"
    /\ pidFile' = Itoa(DaemonPid)
    /\ sup' = "idle"
    /\ ret' = [op |-> "Start", val |-> "nil", read |-> NoFile]
    /\ calls' = <<"Start">>
    /\ UNCHANGED <<daemonVars, okCount, failCount>>
    /\ UNCHANGED supervisorSide

\* Faulty startLedgerDaemon: the write error is returned, the process is left.
StartWriteFailOrphan(truncated) ==
    /\ DaemonHost
    /\ sup = "spawned"
    /\ pidFile' = IF truncated THEN <<>> ELSE pidFile
    /\ sup' = "idle"
    /\ ret' = [op |-> "Start", val |-> "pidfile", read |-> NoFile]
    /\ calls' = <<>>
    /\ UNCHANGED <<daemonVars, okCount, failCount>>
    /\ UNCHANGED supervisorSide

\* os.WriteFile fails, at the open (the file is as it was) or after it (the
\* file is there and empty): cmd.Process.Kill(), "failed to write PID file".
StartWriteFail(truncated) ==
    /\ DaemonHost
    /\ sup = "spawned"
    /\ pidFile' = IF truncated THEN <<>> ELSE pidFile
    /\ dpc' = IF dpc \in Alive THEN "killed" ELSE dpc
    /\ dtick' = FALSE
    /\ sigSent' = (sigSent \/ dpc \in Alive)
    /\ sup' = "idle"
    /\ ret' = [op |-> "Start", val |-> "pidfile", read |-> NoFile]
    /\ calls' = <<>>
    /\ UNCHANGED <<probes, notify, sigCh, handler, dctxDone, ledgerCount, dinflight,
                   dattempts, dconsumed, okCount, failCount>>
    /\ UNCHANGED supervisorSide

\* Faulty stopLedgerDaemon: a missing PID file is an error.
StopNoFileError ==
    /\ host = "detached"
    /\ sup = "idle"
    /\ pidFile = NoFile
    /\ ret' = [op |-> "Stop", val |-> "read", read |-> NoFile]
    /\ calls' = <<>>
    /\ UNCHANGED <<pidFile, sup, daemonVars, okCount, failCount>>
    /\ UNCHANGED supervisorSide

\* stopLedgerDaemon, os.ReadFile: os.IsNotExist(err), return nil.
StopNoFile ==
    /\ host = "detached"
    /\ sup = "idle"
    /\ pidFile = NoFile
    /\ ret' = [op |-> "Stop", val |-> "nil", read |-> NoFile]
    /\ calls' = AfterStop
    /\ UNCHANGED <<pidFile, sup, daemonVars, okCount, failCount>>
    /\ UNCHANGED supervisorSide

\* os.ReadFile fails on a file that is there: "failed to read PID file".
StopReadError ==
    /\ host = "detached"
    /\ sup = "idle"
    /\ pidFile # NoFile
    /\ ret' = [op |-> "Stop", val |-> "read", read |-> Unreadable]
    /\ calls' = <<>>
    /\ UNCHANGED <<pidFile, sup, daemonVars, okCount, failCount>>
    /\ UNCHANGED supervisorSide

\* strconv.Atoi fails: os.Remove(pidFile), "invalid PID in file".
StopInvalidPid ==
    /\ host = "detached"
    /\ sup = "idle"
    /\ pidFile # NoFile
    /\ Atoi(pidFile).err
    /\ pidFile' = NoFile
    /\ ret' = [op |-> "Stop", val |-> "invalid", read |-> pidFile]
    /\ calls' = <<>>
    /\ UNCHANGED <<sup, daemonVars, okCount, failCount>>
    /\ UNCHANGED supervisorSide

\* Faulty stopLedgerDaemon: a failed Signal is returned as an error.
StopProcessGoneError ==
    /\ host = "detached"
    /\ sup = "idle"
    /\ pidFile # NoFile
    /\ ~Atoi(pidFile).err
    /\ ~ProcessExists(Atoi(pidFile).n)
    /\ pidFile' = NoFile
    /\ ret' = [op |-> "Stop", val |-> "signal", read |-> pidFile]
    /\ calls' = <<>>
    /\ UNCHANGED <<sup, daemonVars, okCount, failCount>>
    /\ UNCHANGED supervisorSide

\* process.Signal(SIGTERM) fails, the process is gone: os.Remove, return nil.
StopProcessGone ==
    /\ host = "detached"
    /\ sup = "idle"
    /\ pidFile # NoFile
    /\ ~Atoi(pidFile).err
    /\ ~ProcessExists(Atoi(pidFile).n)
    /\ pidFile' = NoFile
    /\ ret' = [op |-> "Stop", val |-> "nil", read |-> pidFile]
    /\ calls' = AfterStop
    /\ UNCHANGED <<sup, daemonVars, okCount, failCount>>
    /\ UNCHANGED supervisorSide

\* process.Signal(SIGTERM) succeeds: the signal reaches the daemon as in
\* Signal, and stopLedgerDaemon sleeps 500ms.
StopSignal ==
    /\ host = "detached"
    /\ sup = "idle"
    /\ pidFile # NoFile
    /\ ~Atoi(pidFile).err
    /\ ProcessExists(Atoi(pidFile).n)
    /\ sigSent' = TRUE
    /\ IF notify
          THEN /\ sigCh' = TRUE
               /\ UNCHANGED <<dpc, dtick>>
          ELSE /\ dpc' = "killed"
               /\ dtick' = FALSE
               /\ UNCHANGED sigCh
    /\ sup' = "sleeping"
    /\ ret' = [op |-> "Stop", val |-> "pending", read |-> pidFile]
    /\ UNCHANGED <<pidFile, calls, probes, notify, handler, dctxDone, ledgerCount,
                   dinflight, dattempts, dconsumed, okCount, failCount>>
    /\ UNCHANGED supervisorSide

\* Faulty stopLedgerDaemon: the PID file is kept while the process lives.
StopRemoveIfDead ==
    /\ host = "detached"
    /\ sup = "sleeping"
    /\ pidFile' = IF dpc \in Alive THEN pidFile ELSE NoFile
    /\ sup' = "idle"
    /\ ret' = [op |-> "Stop", val |-> "nil", read |-> ret.read]
    /\ calls' = AfterStop
    /\ UNCHANGED <<daemonVars, okCount, failCount>>
    /\ UNCHANGED supervisorSide

\* The sleep ends: os.Remove(pidFile), return nil.
StopRemove ==
    /\ host = "detached"
    /\ sup = "sleeping"
    /\ pidFile' = NoFile
    /\ sup' = "idle"
    /\ ret' = [op |-> "Stop", val |-> "nil", read |-> ret.read]
    /\ calls' = AfterStop
    /\ UNCHANGED <<daemonVars, okCount, failCount>>
    /\ UNCHANGED supervisorSide

\* Faulty isLedgerDaemonRunning: a PID file with a number in it is enough.
IsRunningByFile ==
    /\ host = "detached"
    /\ sup = "idle"
    /\ ret' = [op |-> "IsRunning",
               val |-> IF pidFile = NoFile THEN "false"
                       ELSE IF Atoi(pidFile).err THEN "false"
                       ELSE "true",
               read |-> pidFile]
    /\ UNCHANGED <<pidFile, sup, calls, daemonVars, okCount, failCount>>
    /\ UNCHANGED supervisorSide

\* isLedgerDaemonRunning: ReadFile, Atoi, FindProcess, Signal(0); any error
\* gives false.
IsRunning ==
    /\ host = "detached"
    /\ sup = "idle"
    /\ ret' = [op |-> "IsRunning",
               val |-> IF pidFile = NoFile THEN "false"
                       ELSE IF Atoi(pidFile).err THEN "false"
                       ELSE IF ProcessExists(Atoi(pidFile).n) THEN "true"
                       ELSE "false",
               read |-> pidFile]
    /\ UNCHANGED <<pidFile, sup, calls, daemonVars, okCount, failCount>>
    /\ UNCHANGED supervisorSide

\* ------------------------------------------ WalletManager (pkg/wallet)
\* Everything but the wallet manager's directory and results.
walletSide ==
    <<host, configKey, interval, fields, muWriter, muReaders, runs, loopVars, readerVars,
      history, daemonVars, supVars, managerVars, buildVars, sret>>

\* The wallets SaveWallet is called with.
Wallets == [name : WalletNames, address : Addresses, seed : Seeds]

\* SaveWallet: the name is validated, a name that exists is refused, the seed
\* is encrypted under the key of the password and a fresh salt, and the
\* keystore is written to name.json.
SaveWallet(wallet, password, salt, nonce) ==
    /\ host = "wallet"
    /\ IF ValidateWalletName(wallet.name) # "nil"
          THEN /\ wret' = [NoCall EXCEPT !.op = "Save", !.name = wallet.name,
                                         !.err = ValidateWalletName(wallet.name)]
               /\ UNCHANGED <<walletsDir, stored>>
          ELSE IF Exists(walletsDir, wallet.name)
          THEN /\ wret' = [NoCall EXCEPT !.op = "Save", !.name = wallet.name,
                                         !.err = "exists"]
               /\ UNCHANGED <<walletsDir, stored>>
          ELSE /\ walletsDir' = [walletsDir EXCEPT ![wallet.name] =
                                    KeystoreFile(wallet, password, salt, nonce)]
               /\ stored' = stored \cup {[wallet |-> wallet, password |-> password]}
               /\ wret' = [NoCall EXCEPT !.op = "Save", !.name = wallet.name,
                                         !.wallet = wallet]
    /\ UNCHANGED walletSide

\* SaveWallet when os.WriteFile fails, before the file is opened or after:
\* the error is returned and the file, if opened, is left empty.
SaveWalletWriteFail(wallet, opened) ==
    /\ host = "wallet"
    /\ ValidateWalletName(wallet.name) = "nil"
    /\ ~Exists(walletsDir, wallet.name)
    /\ walletsDir' = IF opened THEN [walletsDir EXCEPT ![wallet.name] = Corrupt]
                               ELSE walletsDir
    /\ wret' = [NoCall EXCEPT !.op = "Save", !.name = wallet.name, !.err = "write"]
    /\ UNCHANGED stored
    /\ UNCHANGED walletSide

\* LoadWallet(name, password).
LoadWallet(name, password) ==
    /\ host = "wallet"
    /\ wret' = [NoCall EXCEPT !.op = "Load", !.name = name,
                              !.err = Loaded(walletsDir, name, password).err,
                              !.wallet = Loaded(walletsDir, name, password).wallet]
    /\ UNCHANGED <<walletsDir, stored>>
    /\ UNCHANGED walletSide

\* ListWallets().
ListWallets ==
    /\ host = "wallet"
    /\ wret' = [NoCall EXCEPT !.op = "List", !.list = Listed(walletsDir)]
    /\ UNCHANGED <<walletsDir, stored>>
    /\ UNCHANGED walletSide

\* WalletExists(name).
WalletExists(name) ==
    /\ host = "wallet"
    /\ wret' = [NoCall EXCEPT !.op = "Exists", !.name = name,
                              !.exists = Exists(walletsDir, name)]
    /\ UNCHANGED <<walletsDir, stored>>
    /\ UNCHANGED walletSide

\* Faulty RemoveWallet: nil is returned and the file is left.
RemoveWalletKeeps(name) ==
    /\ host = "wallet"
    /\ wret' = [NoCall EXCEPT !.op = "Remove", !.name = name,
                              !.err = IF Exists(walletsDir, name) THEN "nil"
                                                                  ELSE "notfound"]
    /\ stored' = {s \in stored : s.wallet.name # name}
    /\ UNCHANGED walletsDir
    /\ UNCHANGED walletSide

\* RemoveWallet: "wallet not found" when os.Stat finds no name.json, else
\* os.Remove of it.
RemoveWallet(name) ==
    /\ host = "wallet"
    /\ IF Exists(walletsDir, name)
          THEN /\ walletsDir' = [walletsDir EXCEPT ![name] = NoKeystore]
               /\ stored' = {s \in stored : s.wallet.name # name}
               /\ wret' = [NoCall EXCEPT !.op = "Remove", !.name = name]
          ELSE /\ wret' = [NoCall EXCEPT !.op = "Remove", !.name = name,
                                         !.err = "notfound"]
               /\ UNCHANGED <<walletsDir, stored>>
    /\ UNCHANGED walletSide

\* ------------------------------------------------- runBuild (cli build)
\* Everything but the build command.
buildSide ==
    <<host, configKey, interval, fields, muWriter, muReaders, runs, loopVars, readerVars,
      history, daemonVars, supVars, managerVars, walletVars, sret>>

\* Faulty runBuild: the error of config.LoadFromWorkingDir is returned as it is.
BuildLoadFailBare ==
    /\ host = "build"
    /\ bpc = "begin"
    /\ Load(tomlFile) # <<>>
    /\ bret' = Load(tomlFile)
    /\ bpc' = "returned"
    /\ UNCHANGED <<tomlFile, buildWatch, builderCalls>>
    /\ UNCHANGED buildSide

\* config.LoadFromWorkingDir fails: "failed to load config: %w (run 'bedrock
\* init' first)" is returned.
BuildLoadFail ==
    /\ host = "build"
    /\ bpc = "begin"
    /\ Load(tomlFile) # <<>>
    /\ bret' = <<"failed", "to", "load", "config:">> \o Load(tomlFile)
                  \o <<"(run", "'bedrock", "init'", "first)">>
    /\ bpc' = "returned"
    /\ UNCHANGED <<tomlFile, buildWatch, builderCalls>>
    /\ UNCHANGED buildSide

\* The configuration is loaded and --watch is set: "watch mode coming soon".
BuildWatch ==
    /\ host = "build"
    /\ bpc = "begin"
    /\ Load(tomlFile) = <<>>
    /\ buildWatch
    /\ bret' = <<"watch", "mode", "coming", "soon">>
    /\ bpc' = "returned"
    /\ UNCHANGED <<tomlFile, buildWatch, builderCalls>>
    /\ UNCHANGED buildSide

\* builder.New(".") and b.Build(ctx, opts): the toolchain is at work.
BuildInvoke ==
    /\ host = "build"
    /\ bpc = "begin"
    /\ Load(tomlFile) = <<>>
    /\ ~buildWatch
    /\ builderCalls' = builderCalls + 1
    /\ bpc' = "building"
    /\ UNCHANGED <<tomlFile, buildWatch, bret>>
    /\ UNCHANGED buildSide

\* b.Build returns an error, which runBuild returns, or a result (err is nil).
BuildReturn(err) ==
    /\ host = "build"
    /\ bpc = "building"
    /\ bret' = err
    /\ bpc' = "returned"
    /\ UNCHANGED <<tomlFile, buildWatch, builderCalls>>
    /\ UNCHANGED buildSide

\* ------------------------------------------- nodeStart's end, Manager.Stop
\* nodeStart returns after startLedgerDaemon, whatever that returned, and the
\* command's process ends, its goroutines with it.
NodeStartExit ==
    /\ host = "node"
    /\ ret.op = "Start"
    /\ sup = "idle"
    /\ sup' = "exited"
    /\ UNCHANGED <<pidFile, ret, calls, daemonVars, okCount, failCount>>
    /\ UNCHANGED supervisorSide

\* Faulty Manager.Stop: the ledger service is left as it is.
ManagerStopServiceSkipped ==
    /\ host = "node"
    /\ mpc \in {"started", "returned"}
    /\ ret.op = "none"
    /\ sup = "idle"
    /\ mstop = "none"
    /\ mstop' = "service"
    /\ UNCHANGED <<mpc, elapsed, mctxDone, container, mret, warning>>
    /\ UNCHANGED managerSide

\* Manager.Stop, "Stop ledger service first": with m.ledgerService set,
\* LedgerService.Stop (Lock, cancel, running = false) and m.ledgerService = nil.
ManagerStopService ==
    /\ host = "node"
    /\ mpc \in {"started", "returned"}
    /\ ret.op = "none"
    /\ sup = "idle"
    /\ mstop = "none"
    /\ mstop' = "service"
    /\ IF mpc = "started" /\ running
          THEN /\ CanLock
               /\ ctxDone' = IF cancel # 0 THEN [ctxDone EXCEPT ![cancel] = TRUE]
                                           ELSE ctxDone
               /\ cancel' = 0
               /\ running' = FALSE
               /\ committed' = Status(FALSE, ledgersAdvanced, lastLedgerIndex, lastError)
               /\ sret' = "stopped"
          ELSE UNCHANGED <<ctxDone, cancel, running, committed, sret>>
    /\ UNCHANGED <<host, configKey, interval, daemonVars, supVars, toolVars, mpc, elapsed,
                   mctxDone, container, mret, warning, ledgersAdvanced, lastLedgerIndex,
                   lastError, muWriter, muReaders, runs, pc, tick, inflight, result,
                   attempts, consumed, readerVars, okCount, failCount, lastAttempt>>

\* Outcomes of Manager.Stop's container part: done, ContainerStop failed,
\* ContainerRemove failed.
StopOutcomes == {"nil", "stop", "remove"}

\* Manager.Stop after the ledger service: getContainer ("node is not running"
\* when there is none), ContainerStop, ContainerRemove.  In "node stop" the
\* Manager is a new one without a ledger service, and Manager.Stop is called
\* when stopLedgerDaemon has returned, with an error or without.
ManagerStopContainer(outcome) ==
    /\ \/ host = "node" /\ mstop = "service"
       \/ host = "detached" /\ mstop = "none" /\ ret.op = "Stop" /\ sup = "idle"
    /\ IF container = "absent"
          THEN /\ mstop' = "notrunning"
               /\ UNCHANGED container
          ELSE /\ mstop' = outcome
               /\ container' = CASE outcome = "nil" -> "absent"
                                 [] outcome = "stop" -> container
                                 [] outcome = "remove" -> "stopped"
    /\ UNCHANGED <<mpc, elapsed, mctxDone, mret, warning>>
    /\ UNCHANGED managerSide

\* ---------------------------------------------------------- specification
Next ==
    \/ ManagerContainerFail
    \/ ManagerContainerStart
    \/ ManagerCreateFail
    \/ ManagerCreate
    \/ ManagerCtxCancel
    \/ WaitDeadline
    \/ WaitCtxDone
    \/ WaitRequest
    \/ \E r \in 0..MaxRequestTime : WaitRequestFail(r)
    \/ \E r \in 0..MaxRequestTime : WaitRequestOk(r)
    \/ WaitSleepDone
    \/ ManagerNotReady
    \/ Start
    \/ StartAlreadyRunning
    \/ Stop
    \/ StopNotRunning
    \/ \E g \in G : ParentCancel(g)
    \/ \E g \in G : RunFirst(g)
    \/ \E g \in G : TickerFire(g)
    \/ \E g \in G : \E e \in Errors : AdvanceFail(g, e)
    \/ \E g \in G : \E i \in Indices : AdvanceOkLock(g, i)
    \/ \E g \in G : AdvanceSetIndex(g)
    \/ \E g \in G : AdvanceClearErr(g)
    \/ \E g \in G : LoopCancel(g)
    \/ \E g \in G : LoopTick(g)
    \/ GetStatusRLock
    \/ GetStatusReadRest
    \/ GetStatusReturn
    \/ \E e \in SpawnErrors : StartSpawnFail(e)
    \/ StartSpawn
    \/ StartWritePid
    \/ \E truncated \in BOOLEAN : StartWriteFail(truncated)
    \/ StopNoFile
    \/ StopReadError
    \/ StopInvalidPid
    \/ StopProcessGone
    \/ StopSignal
    \/ StopRemove
    \/ IsRunning
    \/ NodeStartExit
    \/ ManagerStopService
    \/ \E outcome \in StopOutcomes : ManagerStopContainer(outcome)
    \/ \E w \in Wallets : \E pw \in Passwords : \E salt \in Salts : \E nonce \in Nonces :
          SaveWallet(w, pw, salt, nonce)
    \/ \E w \in Wallets : \E opened \in BOOLEAN : SaveWalletWriteFail(w, opened)
    \/ \E name \in WalletNames : \E pw \in Passwords : LoadWallet(name, pw)
    \/ ListWallets
    \/ \E name \in WalletNames : WalletExists(name)
    \/ \E name \in WalletNames : RemoveWallet(name)
    \/ BuildLoadFail
    \/ BuildWatch
    \/ BuildInvoke
    \/ \E err \in BuildErrors \cup {<<>>} : BuildReturn(err)
    \/ DaemonStart
    \/ DaemonProbeOk
    \/ DaemonProbeFail
    \/ DaemonSleepDone
    \/ DaemonTickerPanic
    \/ DaemonEnterLoop
    \/ Signal
    \/ HandlerCancel
    \/ DaemonTickerFire
    \/ DaemonAdvanceFail
    \/ DaemonAdvanceOk
    \/ DaemonLoopCancel
    \/ DaemonLoopTick

Spec == Init /\ [][Next]_vars

\* Every request returns, a goroutine that can run does run, sync.RWMutex
\* keeps no Lock waiting for ever behind readers, and Go's select chooses at
\* random among its ready cases, so a ready case is not passed over for ever.
Fairness ==
    /\ \A g \in G :
        /\ WF_vars(RunFirst(g))
        /\ SF_vars((\E e \in Errors : AdvanceFail(g, e))
                     \/ (\E i \in Indices : AdvanceOkLock(g, i)))
        /\ WF_vars(AdvanceSetIndex(g))
        /\ WF_vars(AdvanceClearErr(g))
        /\ SF_vars(LoopCancel(g))
    /\ WF_vars(GetStatusReadRest)
    /\ WF_vars(GetStatusReturn)

LiveSpec == Spec /\ Fairness

\* ----------------------------------------------------------- properties
\* The states of section 4.1, in their order, for a loop goroutine of the
\* service and for the daemon process.
Rank(p) ==
    CASE p = "idle" -> 0
      [] p \in {"spawned", "request", "w_idx", "w_err", "select"} -> 2
      [] p = "done" -> 3

DRank(p) ==
    CASE p \in {"none", "start"} -> 0
      [] p \in {"probe", "sleep", "ready"} -> 1
      [] p \in {"request", "select"} -> 2
      [] p \in {"failed", "exited", "killed", "crashed"} -> 3

\* C1: whenever the status can be read (no update is half done), the count of
\* advanced ledgers is the number of attempts that succeeded since the count
\* was last reset, whatever failures came between them; the daemon's
\* ledgerCount likewise.
C1_CountEqualsSuccesses ==
    /\ (host = "inprocess" /\ muWriter = 0) => ledgersAdvanced = okCount
    /\ host = "detached" => ledgerCount = okCount

C1_Witness ==
    /\ host = "inprocess"
    /\ muWriter = 0
    /\ okCount = 2
    /\ failCount = 1
    /\ ledgersAdvanced = 2

\* C2: lastError is the message of the latest completed attempt if that attempt
\* failed, and empty if it succeeded or if none has completed since Start.
C2_LastErrorIsLatestOutcome ==
    host = "inprocess" =>
        lastError = IF lastAttempt \in Errors THEN lastAttempt ELSE ""

C2_Witness ==
    /\ host = "inprocess"
    /\ failCount >= 1
    /\ okCount = 1
    /\ lastAttempt = "ok"
    /\ lastError = ""

\* C3: a failed attempt changes lastError alone; a successful one leaves the
\* count one above what it was before the attempt's update, the index equal to
\* the one the node reported (lower than before or not) and the error empty.
C3_AttemptFrame ==
    [][\A g \in G :
         /\ (pc[g] = "request" /\ pc'[g] = "select") =>
               /\ lastError' \in Errors
               /\ ledgersAdvanced' = ledgersAdvanced
               /\ lastLedgerIndex' = lastLedgerIndex
               /\ running' = running
               /\ cancel' = cancel
         /\ (pc[g] = "w_err" /\ pc'[g] = "select") =>
               /\ ledgersAdvanced' = committed.adv + 1
               /\ lastLedgerIndex' = result[g]
               /\ lastError' = ""
               /\ running' = running
               /\ cancel' = cancel]_vars

C3_Witness ==
    /\ host = "inprocess"
    /\ failCount >= 1
    /\ \E g \in G :
        /\ pc[g] = "w_err"
        /\ committed.idx > result[g]
        /\ lastLedgerIndex = result[g]
        /\ ledgersAdvanced = committed.adv + 1

\* C4: the states are passed in their order only; a loop leaves Running only
\* when its context is cancelled (the service) or a termination signal has
\* reached the process (the daemon, which returns only when its context is
\* cancelled); the daemon enters Running only after a readiness request has
\* succeeded.
C4_StoppedOnlyByCancellation ==
    [][/\ \A g \in G :
            /\ Rank(pc'[g]) >= Rank(pc[g])
            /\ (Rank(pc[g]) = 2 /\ Rank(pc'[g]) = 3) => ctxDone[g]
       /\ DRank(dpc') >= DRank(dpc)
       /\ (DRank(dpc) = 2 /\ DRank(dpc') = 3) => sigSent'
       /\ (DRank(dpc) # 2 /\ DRank(dpc') = 2) => dpc = "ready"
       /\ (dpc # "exited" /\ dpc' = "exited") => dctxDone]_vars

C4_Witness ==
    /\ host = "inprocess"
    /\ runs = 1
    /\ pc[1] = "done"
    /\ failCount = 2
    /\ okCount = 0

\* C5: a loop has issued one request on entry and one per tick it received, no
\* more and no fewer, whatever the outcomes were (the daemon's loop also when
\* the process was killed inside it).
C5_OneRequestPerTick ==
    /\ \A g \in G :
        attempts[g] = IF pc[g] \in {"idle", "spawned"} THEN 0 ELSE consumed[g] + 1
    /\ dattempts = IF dpc \in {"request", "select", "exited"}
                         \/ (dpc = "killed" /\ notify)
                      THEN dconsumed + 1
                      ELSE 0

C5_Witness ==
    /\ host = "inprocess"
    /\ pc[1] = "select"
    /\ attempts[1] = 2
    /\ consumed[1] = 1
    /\ failCount = 2

\* C6: no request is sent by a loop whose context is already cancelled.
C6_NoRequestAfterCancel ==
    [][/\ \A g \in G : inflight'[g] > inflight[g] => ~ctxDone[g]
       /\ dinflight' > dinflight => ~dctxDone]_vars

\* C7: a loop whose context is cancelled returns.
C7_CancelledLoopReturns ==
    \A g \in G : ctxDone[g] ~> (pc[g] = "done")

C7_Witness ==
    /\ host = "inprocess"
    /\ pc[1] = "done"
    /\ ctxDone[2]
    /\ pc[2] = "request"

\* C8: a started loop (the daemon's: with an interval above 0) can send its
\* first request at once, no tick exists before it, and every tick a loop
\* receives comes after its first request.
C8_FirstAttemptImmediate ==
    /\ \A g \in G :
        /\ pc[g] = "spawned" =>
              (ProcessLive => ENABLED RunFirst(g)) /\ ~tick[g] /\ consumed[g] = 0
        /\ pc[g] \notin {"idle", "spawned"} => attempts[g] >= 1
        /\ consumed[g] >= 1 => attempts[g] >= 2
    /\ (dpc = "ready" /\ interval > 0) =>
          (ProcessLive => ENABLED DaemonEnterLoop) /\ ~dtick /\ dconsumed = 0
    /\ dpc \in {"request", "select", "exited"} => dattempts >= 1
    /\ dconsumed >= 1 => dattempts >= 2

C8_Witness ==
    /\ host = "inprocess"
    /\ pc[1] = "request"
    /\ attempts[1] = 1
    /\ consumed[1] = 0
    /\ ~tick[1]

\* C9: a loop has at most one request unanswered, and has one exactly while it
\* waits in client.Request.
C9_NoOverlap ==
    \A g \in G :
        /\ inflight[g] <= 1
        /\ inflight[g] = 1 <=> pc[g] = "request"

C9_Witness ==
    /\ host = "inprocess"
    /\ \E g \in G :
        /\ pc[g] = "request"
        /\ attempts[g] = 2
        /\ tick[g]

\* C10: a complete status is the state the latest whole update left, and no
\* update is under way while GetStatus holds its read lock.
C10_SnapshotIsWhole ==
    /\ rpc = "complete" => snapshot = committed
    /\ rpc # "idle" => muWriter = 0

C10_Witness ==
    /\ rpc = "complete"
    /\ snapshot.adv = 1
    /\ snapshot.idx >= 1
    /\ \E g \in G : pc[g] = "request"

\* A supervisor call returns in this step: Stop, Start.
StopReturns == ret'.op = "Stop" /\ sup' = "idle" /\ (ret' # ret \/ calls' # calls)

StartReturns == ret'.op = "Start" /\ sup' = "idle" /\ (ret' # ret \/ calls' # calls)

\* C11: a Stop called while there is no PID file returns nil and leaves the
\* PID file absent and the daemon process as it was, however many Stops came
\* before it.
C11_StopWithoutPidFile ==
    [][(pidFile = NoFile /\ sup = "idle" /\ StopReturns) =>
          /\ ret'.val = "nil"
          /\ pidFile' = NoFile
          /\ UNCHANGED daemonVars]_vars

C11_Witness ==
    /\ ret = [op |-> "Stop", val |-> "nil", read |-> NoFile]
    /\ sup = "idle"
    /\ pidFile = NoFile
    /\ dpc = "select"
    /\ sigSent

C13_StartThenStop ==
    calls = <<"Start", "Stop">> =>
        /\ pidFile = NoFile
        /\ ret.op = "IsRunning" => ret.val = "false"

C13_Witness ==
    /\ calls = <<"Start", "Stop">>
    /\ ret = [op |-> "IsRunning", val |-> "false", read |-> NoFile]
    /\ notify
    /\ sigSent
    /\ dpc = "request"

\* Process IDs a PID file of the model can name.
Pids == 0..(DaemonPid + StalePid)

\* An IsRunning call returns in this step.
IsRunningReturns == ret'.op = "IsRunning" /\ ret' # ret

C15_FailedStartLeavesNoDaemon ==
    [][(StartReturns /\ ret'.val # "nil") =>
          /\ sup = "spawned" => (ret'.val = "pidfile" /\ dpc' \notin Alive)
          /\ sup = "idle" =>
                (ret'.val \in SpawnErrors /\ UNCHANGED <<pidFile, daemonVars>>)]_vars

C15_Witness ==
    /\ ret = [op |-> "Start", val |-> "pidfile", read |-> NoFile]
    /\ sup = "idle"
    /\ dpc = "killed"
    /\ notify
    /\ pidFile = <<>>

\* C16: once the container runs it stays; Manager.Start returns an error
\* only when the container did not start; after any warning (service not
\* created, node not ready) it has returned nil; and after a startLedgerDaemon
\* that failed, at the spawn or at the PID file, nodeStart returns nil with the
\* container running.
C16_FailureIsWarning ==
    /\ (mpc \notin {"begin", "nocontainer"} /\ mstop \notin {"nil", "remove"}) =>
          container = "running"
    /\ mret = "error" => mpc = "nocontainer"
    /\ warning # "none" => (mpc = "returned" /\ mret = "nil")
    /\ (host = "detached" /\ ret.op = "Start" /\ sup = "idle") =>
          (NodeStartReturn(mret, ret.val) = "nil" /\ container = "running")

C16_Witness ==
    /\ host = "inprocess"
    /\ warning = "timeout"
    /\ mpc = "returned"
    /\ mret = "nil"
    /\ container = "running"
    /\ runs = 0

\* C17: while no readiness request has been answered, and after the wait was
\* given up (WaitForReady's deadline or cancellation, the daemon's 60 probes),
\* there is no loop: no goroutine, no request of a loop, no tick, and the
\* count of advanced ledgers is 0.
C17_NoLoopWithoutReadiness ==
    /\ (mpc \in {"create", "top", "request", "sleep", "timeout", "cancelled"}
          \/ warning # "none") =>
          /\ runs = 0
          /\ ~running
          /\ ledgersAdvanced = 0
          /\ \A g \in G : pc[g] = "idle" /\ ~tick[g] /\ attempts[g] = 0
    /\ dpc \in {"start", "probe", "sleep", "failed"} =>
          /\ ~notify
          /\ ~dtick
          /\ dattempts = 0
          /\ dconsumed = 0
          /\ ledgerCount = 0

C17_Witness ==
    /\ host = "detached"
    /\ dpc = "failed"
    /\ probes = ReadyAttempts
    /\ pidFile = Itoa(DaemonPid)
    /\ ret.op = "IsRunning"

\* C18 as stated: whenever WaitForReady leaves its loop's head with anything
\* but a request, it returns the error of the exhausted deadline.
C18_OnlyDeadlineError ==
    [][(mpc = "top" /\ mpc' \notin {"top", "request"}) =>
          (mpc' = "timeout" /\ elapsed' >= DefaultNodeReadyTimeout)]_vars

\* C18, amended: a request that returns ends the wait with nil if it succeeded
\* and leads to the sleep if it failed, last_error and the caller's result
\* untouched; nil is returned on a successful request only; and the errors
\* returned are two: the deadline's, once the timeout has elapsed, and
\* ctx.Err() of a cancelled context, found at the head of the loop.
C18_ErrorsOfWaitForReady ==
    [][/\ (mpc = "request" /\ mpc' # "request") =>
             /\ mpc' \in {"sleep", "ready"}
             /\ lastError' = lastError
             /\ mret' = mret
       /\ (mpc' = "ready" /\ mpc # "ready") => mpc = "request"
       /\ (mpc = "top" /\ mpc' \notin {"top", "request"}) =>
             \/ mpc' = "timeout" /\ elapsed' >= DefaultNodeReadyTimeout
             \/ mpc' = "cancelled" /\ mctxDone /\ elapsed' < DefaultNodeReadyTimeout]_vars

C18_Witness ==
    /\ mpc = "ready"
    /\ elapsed > 2 * (PollInterval + MaxRequestTime) + MaxRequestTime
    /\ lastError = ""
    /\ mret = "none"
    /\ warning = "none"

\* C19: WaitForReady returns its timeout error no earlier than the timeout
\* and no later than the timeout plus one poll interval after it was called.
C19_TimeoutWithinOnePoll ==
    [][(mpc' = "timeout" /\ mpc # "timeout") =>
          /\ elapsed' >= DefaultNodeReadyTimeout
          /\ elapsed' <= DefaultNodeReadyTimeout + PollInterval]_vars

\* C20: a loop that is in Running has an interval above 0; and once nodeStart
\* has handed the interval on, to Manager.Start or to the daemon's command
\* line, a project file without ledger_interval has given the default.
C20_IntervalPositiveAndDefaulted ==
    /\ ((\E g \in G : Rank(pc[g]) = 2) \/ DRank(dpc) = 2) => interval > 0
    /\ (/\ configKey = <<>>
        /\ \/ host = "inprocess" /\ mpc \notin {"begin", "nocontainer"}
           \/ dpc # "none") =>
          interval = DefaultInterval

\* What ListWallets shows of a wallet.
Info(wallet) == [name |-> wallet.name, address |-> wallet.address]

\* C21: every wallet saved under a valid name that was free, and not removed
\* since, exists, loads under its password with the name, address and seed
\* that were saved, and the list is exactly these wallets; what the calls
\* returned says the same; and after a RemoveWallet that returned nil the
\* name does not exist.
C21_WalletLifecycle ==
    /\ \A s \in stored :
          /\ Exists(walletsDir, s.wallet.name)
          /\ Loaded(walletsDir, s.wallet.name, s.password) =
                [err |-> "nil", wallet |-> s.wallet]
    /\ Listed(walletsDir) = {Info(s.wallet) : s \in stored}
    /\ (wret.op = "Save" /\ wret.err = "nil") =>
          /\ Exists(walletsDir, wret.name)
          /\ \E s \in stored : s.wallet = wret.wallet
    /\ (wret.op = "Load" /\ wret.err = "nil") =>
          \E s \in stored : s.wallet = wret.wallet /\ s.wallet.name = wret.name
    /\ wret.op = "List" => wret.list = {Info(s.wallet) : s \in stored}
    /\ (wret.op = "Exists" /\ (\E s \in stored : s.wallet.name = wret.name)) =>
          wret.exists
    /\ (wret.op = "Remove" /\ wret.err = "nil") => ~Exists(walletsDir, wret.name)

C21_Witness ==
    /\ wret.op = "Load"
    /\ wret.err = "nil"
    /\ wret.wallet = [name |-> <<"b", "-", "1">>, address |-> <<"r", "\"", "\\", "<">>,
                      seed |-> <<115, 69, 100>>]
    /\ Cardinality(stored) = 1
    /\ walletsDir[<<"a">>] = Corrupt

\* C22: while the working directory has no bedrock.toml the builder has not
\* been called, and when the build command has returned there, it returned an
\* error whose message contains "failed to load config", whatever its flags.
C22_BuildWithoutConfig ==
    (host = "build" /\ tomlFile = "absent") =>
        /\ builderCalls = 0
        /\ bpc # "building"
        /\ bpc = "returned" =>
              Contains(bret, <<"failed", "to", "load", "config:">>)

C22_Witness ==
    /\ host = "build"
    /\ tomlFile = "absent"
    /\ buildWatch
    /\ bpc = "returned"
    /\ Contains(bret, <<"no", "such", "file">>)

\* C23: the ledger service is started and the daemon process is spawned only
\* while the node's container runs, in the node host after Manager.Start has
\* started it.  The container is stopped or removed only when the ledger
\* service of that Manager has been stopped and, in "node stop", when
\* stopLedgerDaemon has returned; and whatever stopLedgerDaemon returned,
\* Manager.Stop's container part can follow it.
C23_NodeLifecycleOrder ==
    /\ [][/\ runs' > runs => container = "running" /\ mpc \in {"ready", "started"}
          /\ (dpc = "none" /\ dpc' # "none") =>
                /\ container = "running"
                /\ mstop = "none"
                /\ host = "node" => mpc \in {"started", "returned"} /\ mret = "nil"
          /\ container' # container /\ container = "running" =>
                /\ ~running
                /\ host = "node" => mstop = "service"
                /\ host = "detached" => ret.op = "Stop" /\ sup = "idle"]_vars
    /\ []((host = "detached" /\ ret.op = "Stop" /\ sup = "idle" /\ mstop = "none") =>
            ENABLED ManagerStopContainer("nil"))

\* "node stop" whose stopLedgerDaemon could not read the PID file and whose
\* Manager.Stop then stopped and removed the container, the daemon still there.
C23_Witness ==
    /\ host = "detached"
    /\ ret.op = "Stop"
    /\ ret.val = "read"
    /\ dpc \in Alive
    /\ mstop = "nil"
    /\ container = "absent"

\* C24: a termination signal that reaches the daemon process never ends it by
\* its default action: the process is killed only by the Process.Kill of a
\* startLedgerDaemon that could not write the PID file.
C24_SignalNeverKills ==
    [][(dpc # "killed" /\ dpc' = "killed") =>
          (sup = "spawned" /\ ret'.op = "Start" /\ ret'.val = "pidfile")]_vars

\* C25: the readiness loop sends at most ReadyAttempts requests: while request
\* i is out or slept on, i is below ReadyAttempts.  After the first request
\* that succeeds no further readiness request is sent and the process goes on
\* to its loop; after ReadyAttempts failures the process ends with the timeout
\* error, and it has installed no ticker, received no tick and sent no request
\* of the loop.
C25_ReadinessWait ==
    /\ [](/\ dpc \in {"probe", "sleep"} => probes < ReadyAttempts
          /\ dpc = "failed" =>
                /\ probes = ReadyAttempts
                /\ ~notify
                /\ ~dtick
                /\ dconsumed = 0
                /\ dattempts = 0
                /\ ledgerCount = 0)
    /\ [][/\ dpc = "probe" => dpc' \in {"probe", "ready", "sleep", "killed"}
          /\ dpc = "ready" => dpc' \notin {"probe", "sleep", "failed"}
          /\ dpc' = "failed" => dpc \in {"sleep", "failed"}
          /\ dpc' = "ready" /\ dpc # "ready" => dpc = "probe"]_vars

\* All ReadyAttempts requests failed: "timeout waiting for node to be ready".
C25_Witness ==
    /\ dpc = "failed"
    /\ probes = ReadyAttempts
    /\ dattempts = 0

\* C26: the loop of the in-process ledger service and the loop of the detached
\* daemon never both have a ledger_accept request out.
C26_OneAdvancementLoop ==
    \A g \in G : ~(inflight[g] > 0 /\ dinflight > 0)

\* C27: while running is true a loop goroutine of the service is live, and
\* while running is false no field of the status changes.
C27_RunningIsTruthful ==
    /\ [](running => \E g \in G : pc[g] \notin {"idle", "done"})
    /\ [][(~running /\ ~running') =>
            <<ledgersAdvanced, lastLedgerIndex, lastError>>' =
                <<ledgersAdvanced, lastLedgerIndex, lastError>>]_vars

\* C28: at most one loop goroutine of the service is live, and a goroutine
\* whose run was stopped writes nothing into the counters of a later run.
C28_OneLoopGoroutine ==
    /\ [](Cardinality({g \in G : pc[g] \notin {"idle", "done"}}) <= 1)
    /\ [][\A g \in G :
            (g < runs /\ pc[g] # pc'[g] /\ runs' = runs) =>
                <<ledgersAdvanced, lastLedgerIndex, lastError>>' =
                    <<ledgersAdvanced, lastLedgerIndex, lastError>>]_vars

\* C29: a Start that finds the service running returns "ledger service is
\* already running" and changes nothing: no goroutine is spawned, s.cancel is
\* kept and the three fields are as they were; a loop is spawned only by a
\* Start that found the service not running.  A Stop that finds the service
\* not running changes nothing either.
C29_RefusedCallsChangeNothing ==
    [][/\ (sret' = "already" /\ sret # "already") =>
             /\ running /\ running'
             /\ UNCHANGED <<cancel, ledgersAdvanced, lastLedgerIndex, lastError, runs,
                            pc, ctxDone>>
       /\ (sret' = "noop" /\ sret # "noop") =>
             /\ ~running /\ ~running'
             /\ UNCHANGED <<cancel, ledgersAdvanced, lastLedgerIndex, lastError, runs,
                            pc, ctxDone>>
       /\ runs' # runs => ~running /\ sret' = "nil"
       /\ (running /\ running') => cancel' = cancel]_vars

\* A Start refused on a service that has closed a ledger and has a request out.
C29_Witness ==
    /\ sret = "already"
    /\ running
    /\ ledgersAdvanced > 0
    /\ lastLedgerIndex > 0
    /\ \E g \in G : pc[g] = "request"

\* C30: between the supervisor's calls a daemon process that is alive has its
\* process ID in the PID file.
C30_PidFileTracksDaemon ==
    (dpc \in Alive /\ sup \in {"idle", "exited"}) => pidFile = Itoa(DaemonPid)

====
